---- MODULE Spec2Model ----
(***************************************************************************)
(* State-machine model of the useJarvis hook (src/hooks/useJarvis.ts):     *)
(* the recognition wrapper, the speech-output queue, the chat client and   *)
(* the engines (speechSynthesis, SpeechRecognition, chat service) behind.  *)
(*                                                                         *)
(* Every handler of the hook runs to completion on the single event loop   *)
(* and React re-renders before the next handler runs, so one action is one *)
(* whole handler and a read of isListening / isSpeaking sees the value the *)
(* previous handler committed.                                             *)
(*                                                                         *)
(* The synthesis engine is the environment: it keeps the utterances it was *)
(* handed in a FIFO (engQ), speaks the head only, and posts start / end /  *)
(* error events as tasks (events) that the event loop delivers later, in   *)
(* order, to the utterance's onstart / onend / onerror handlers.           *)
(***************************************************************************)
EXTENDS Integers, Sequences, FiniteSets, TLC

\* ---- bounds of the model ------------------------------------------------
MaxSpeak == 3
MaxCancel == 2
MaxSessions == 2
JointOps == 2
MaxSend == 2
LiveSpeak == 3
LiveCancel == 1
MaxFragments == 2

\* ---- inputs ---------------------------------------------------------------
\* the texts handed to speak: empty, blank, plain, padded
Texts == {<<>>, <<" ">>, <<" ", " ">>, <<"a">>, <<" ", "a">>,
          <<"a", " ">>, <<" ", "a", " ">>}

\* the callbacks handed to startListening
Callbacks == {"cbA", "cbB"}

\* the messages handed to getJarvisResponseStream
Messages == {"m1", "m2"}

VARIABLES
    isBrowserSupported, \* line 19: both capabilities exist on this host
    eagerSpeaking,      \* host trait: speechSynthesis.speaking already true
                        \* for a handed-over utterance that has not begun
    isListening,        \* line 9
    isSpeaking,         \* line 10
    utteranceQueue,     \* line 16: utteranceQueueRef.current
    isCanceling,        \* line 17: isCancelingRef.current
    engQ,               \* speechSynthesis: utterances handed over, FIFO
    headPlaying,        \* speechSynthesis: Head(engQ) has begun being spoken
    events,             \* synthesis events posted and not yet delivered
    nextId,             \* utterances constructed so far
    cancelCount,        \* effective cancelSpeech calls so far
    startedLog,         \* ids of the utterances the engine began, in order
    sessions,           \* SpeechRecognition objects created, in order
    recognitionRef,     \* line 13: index into sessions, 0 = null
    onResultCallbackRef,\* line 15: "noop" = the initial (_) => {}
    apiKey,             \* line 22: process.env.API_KEY as the effect found it
    chatRef,            \* line 14: chatRef.current is a chat session
    isApiReady,         \* line 11
    sent,               \* the sendMessageStream calls made and their streams
    last                \* the handler or engine step taken last

speechVars == <<isSpeaking, utteranceQueue, isCanceling, engQ, headPlaying,
                events, nextId, cancelCount, startedLog>>

listenVars == <<isListening, sessions, recognitionRef, onResultCallbackRef>>

hostVars == <<isBrowserSupported, eagerSpeaking>>

chatVars == <<apiKey, chatRef, isApiReady, sent>>

vars == <<hostVars, chatVars, speechVars, listenVars, last>>

\* ---- pure helpers ---------------------------------------------------------
IsWhite(c) == c = " "

RECURSIVE TrimStart(_)
TrimStart(s) ==
    IF s = <<>> THEN <<>>
    ELSE IF IsWhite(Head(s)) THEN TrimStart(Tail(s)) ELSE s

RECURSIVE TrimEnd(_)
TrimEnd(s) ==
    IF s = <<>> THEN <<>>
    ELSE IF IsWhite(s[Len(s)]) THEN TrimEnd(SubSeq(s, 1, Len(s) - 1)) ELSE s

\* String.prototype.trim
Trim(s) == TrimEnd(TrimStart(s))

Step(op, id, err, logged, text, pre) ==
    [op |-> op, id |-> id, err |-> err, logged |-> logged, text |-> text,
     pre |-> pre]

\* window.speechSynthesis.speaking
Speaking(eq, playing) == eq # <<>> /\ (playing \/ eagerSpeaking)

\* lines 79-88; the result is the (queue, isCanceling, engQ) it leaves
ProcessQueue_Pop(q, canc, eq, playing) ==
    IF Speaking(eq, playing) \/ Len(q) = 0
    THEN [queue |-> q, isCanceling |-> canc, engQ |-> eq]
    ELSE [queue |-> SubSeq(q, 1, Len(q) - 1), isCanceling |-> FALSE,
          engQ |-> Append(eq, q[Len(q)])]

ProcessQueue_NoSpeakingCheck(q, canc, eq, playing) ==
    IF Len(q) = 0
    THEN [queue |-> q, isCanceling |-> canc, engQ |-> eq]
    ELSE [queue |-> Tail(q), isCanceling |-> FALSE,
          engQ |-> Append(eq, Head(q))]

ProcessQueue_KeepFlag(q, canc, eq, playing) ==
    IF Speaking(eq, playing) \/ Len(q) = 0
    THEN [queue |-> q, isCanceling |-> canc, engQ |-> eq]
    ELSE [queue |-> Tail(q), isCanceling |-> canc,
          engQ |-> Append(eq, Head(q))]

ProcessQueue(q, canc, eq, playing) ==
    IF Speaking(eq, playing) \/ Len(q) = 0
    THEN [queue |-> q, isCanceling |-> canc, engQ |-> eq]
    ELSE [queue |-> Tail(q), isCanceling |-> FALSE,
          engQ |-> Append(eq, Head(q))]

\* line 91: the early return of speak
SpeakRejects_NoTrim(text) == ~isBrowserSupported \/ text = <<>>

SpeakRejects(text) == ~isBrowserSupported \/ Trim(text) = <<>>

\* ---- initial state --------------------------------------------------------
Init ==
    /\ isBrowserSupported \in BOOLEAN
    /\ eagerSpeaking \in BOOLEAN
    /\ isListening = FALSE
    /\ isSpeaking = FALSE
    /\ utteranceQueue = <<>>
    /\ isCanceling = FALSE
    /\ engQ = <<>>
    /\ headPlaying = FALSE
    /\ events = <<>>
    /\ nextId = 0
    /\ cancelCount = 0
    /\ startedLog = <<>>
    /\ sessions = <<>>
    /\ recognitionRef = 0
    /\ onResultCallbackRef = "noop"
    /\ apiKey = "unread"
    /\ chatRef = FALSE
    /\ isApiReady = FALSE
    /\ sent = <<>>
    /\ last = Step("init", 0, "none", FALSE, <<>>, 0)

\* ---- speech output queue --------------------------------------------------
\* lines 90-125
Speak(text) ==
    /\ nextId < MaxSpeak
    /\ last' = Step("speak", IF SpeakRejects(text) THEN 0 ELSE nextId + 1,
                    "none", FALSE, text, Len(utteranceQueue))
    /\ IF SpeakRejects(text)
       THEN UNCHANGED <<hostVars, chatVars, speechVars, listenVars>>
       ELSE LET u == [id |-> nextId + 1, ep |-> cancelCount]
                r == ProcessQueue(Append(utteranceQueue, u), isCanceling,
                                  engQ, headPlaying)
            IN  /\ nextId' = nextId + 1
                /\ utteranceQueue' = r.queue
                /\ isCanceling' = r.isCanceling
                /\ engQ' = r.engQ
                /\ UNCHANGED <<hostVars, chatVars, listenVars, isSpeaking, headPlaying,
                               events, cancelCount, startedLog>>

\* the error events speechSynthesis.cancel() posts for what it removes
RECURSIVE CancelEvents(_, _)
CancelEvents(eq, playing) ==
    IF eq = <<>> THEN <<>>
    ELSE <<[type |-> "error", u |-> Head(eq),
            err |-> IF playing THEN "interrupted" ELSE "canceled"]>>
         \o CancelEvents(Tail(eq), FALSE)

\* lines 127-134
CancelSpeech_KeepQueue ==
    /\ cancelCount < MaxCancel
    /\ last' = Step("cancel", 0, "none", FALSE, <<>>, Len(utteranceQueue))
    /\ IF isBrowserSupported
       THEN /\ isCanceling' = TRUE
            /\ utteranceQueue' = utteranceQueue
            /\ engQ' = <<>>
            /\ headPlaying' = FALSE
            /\ events' = events \o CancelEvents(engQ, headPlaying)
            /\ isSpeaking' = FALSE
            /\ cancelCount' = cancelCount + 1
            /\ UNCHANGED <<hostVars, chatVars, listenVars, nextId, startedLog>>
       ELSE UNCHANGED <<hostVars, chatVars, speechVars, listenVars>>

CancelSpeech_KeepFlag ==
    /\ cancelCount < MaxCancel
    /\ last' = Step("cancel", 0, "none", FALSE, <<>>, Len(utteranceQueue))
    /\ IF isBrowserSupported
       THEN /\ isCanceling' = TRUE
            /\ utteranceQueue' = <<>>
            /\ engQ' = <<>>
            /\ headPlaying' = FALSE
            /\ events' = events \o CancelEvents(engQ, headPlaying)
            /\ isSpeaking' = isSpeaking
            /\ cancelCount' = cancelCount + 1
            /\ UNCHANGED <<hostVars, chatVars, listenVars, nextId, startedLog>>
       ELSE UNCHANGED <<hostVars, chatVars, speechVars, listenVars>>

CancelSpeech ==
    /\ cancelCount < MaxCancel
    /\ last' = Step("cancel", 0, "none", FALSE, <<>>, Len(utteranceQueue))
    /\ IF isBrowserSupported
       THEN /\ isCanceling' = TRUE
            /\ utteranceQueue' = <<>>
            /\ engQ' = <<>>
            /\ headPlaying' = FALSE
            /\ events' = events \o CancelEvents(engQ, headPlaying)
            /\ isSpeaking' = FALSE
            /\ cancelCount' = cancelCount + 1
            /\ UNCHANGED <<hostVars, chatVars, listenVars, nextId, startedLog>>
       ELSE UNCHANGED <<hostVars, chatVars, speechVars, listenVars>>

\* line 97: utterance.onstart
OnStart ==
    /\ events # <<>>
    /\ Head(events).type = "start"
    /\ events' = Tail(events)
    /\ isSpeaking' = TRUE
    /\ last' = Step("onstart", Head(events).u.id, "none", FALSE, <<>>,
                    Len(utteranceQueue))
    /\ UNCHANGED <<hostVars, chatVars, listenVars, utteranceQueue, isCanceling, engQ,
                   headPlaying, nextId, cancelCount, startedLog>>

\* lines 100-104 and 116-120: the tail shared by onend and onerror
Drain_NoClear(canc) ==
    IF Len(utteranceQueue) > 0
    THEN LET r == ProcessQueue(utteranceQueue, canc, engQ, headPlaying)
         IN  /\ utteranceQueue' = r.queue
             /\ isCanceling' = r.isCanceling
             /\ engQ' = r.engQ
             /\ isSpeaking' = isSpeaking
    ELSE /\ isSpeaking' = isSpeaking
         /\ isCanceling' = canc
         /\ UNCHANGED <<utteranceQueue, engQ>>

Drain_NoProcess(canc) ==
    IF Len(utteranceQueue) > 0
    THEN /\ isCanceling' = canc
         /\ UNCHANGED <<utteranceQueue, engQ, isSpeaking>>
    ELSE /\ isSpeaking' = FALSE
         /\ isCanceling' = canc
         /\ UNCHANGED <<utteranceQueue, engQ>>

Drain(canc) ==
    IF Len(utteranceQueue) > 0
    THEN LET r == ProcessQueue(utteranceQueue, canc, engQ, headPlaying)
         IN  /\ utteranceQueue' = r.queue
             /\ isCanceling' = r.isCanceling
             /\ engQ' = r.engQ
             /\ isSpeaking' = isSpeaking
    ELSE /\ isSpeaking' = FALSE
         /\ isCanceling' = canc
         /\ UNCHANGED <<utteranceQueue, engQ>>

\* lines 99-105: utterance.onend
OnEnd ==
    /\ events # <<>>
    /\ Head(events).type = "end"
    /\ events' = Tail(events)
    /\ Drain(isCanceling)
    /\ last' = Step("onend", Head(events).u.id, "none", FALSE, <<>>,
                    Len(utteranceQueue))
    /\ UNCHANGED <<hostVars, chatVars, listenVars, headPlaying, nextId,
                   cancelCount, startedLog>>

\* line 109: the error is taken for the echo of an intentional cancel
Suppressed(err, canc) == err = "interrupted" /\ canc

\* lines 107-121: utterance.onerror
OnError_SuppressedReturns ==
    /\ events # <<>>
    /\ Head(events).type = "error"
    /\ events' = Tail(events)
    /\ LET e == Head(events)
           sup == Suppressed(e.err, isCanceling)
       IN  /\ IF sup
              THEN /\ isCanceling' = FALSE
                   /\ UNCHANGED <<utteranceQueue, engQ, isSpeaking>>
              ELSE Drain(isCanceling)
           /\ last' = Step("onerror", e.u.id, e.err, ~sup, <<>>,
                           Len(utteranceQueue))
    /\ UNCHANGED <<hostVars, chatVars, listenVars, headPlaying, nextId,
                   cancelCount, startedLog>>

OnError_StopOnError ==
    /\ events # <<>>
    /\ Head(events).type = "error"
    /\ events' = Tail(events)
    /\ LET e == Head(events)
           sup == Suppressed(e.err, isCanceling)
       IN  /\ IF sup
              THEN Drain(FALSE)
              ELSE UNCHANGED <<utteranceQueue, isCanceling, engQ, isSpeaking>>
           /\ last' = Step("onerror", e.u.id, e.err, ~sup, <<>>,
                           Len(utteranceQueue))
    /\ UNCHANGED <<hostVars, chatVars, listenVars, headPlaying, nextId,
                   cancelCount, startedLog>>

OnError ==
    /\ events # <<>>
    /\ Head(events).type = "error"
    /\ events' = Tail(events)
    /\ LET e == Head(events)
           sup == Suppressed(e.err, isCanceling)
       IN  /\ Drain(IF sup THEN FALSE ELSE isCanceling)
           /\ last' = Step("onerror", e.u.id, e.err, ~sup, <<>>,
                           Len(utteranceQueue))
    /\ UNCHANGED <<hostVars, chatVars, listenVars, headPlaying, nextId,
                   cancelCount, startedLog>>

\* ---- the synthesis engine (environment) -----------------------------------
\* the head of the engine's queue begins to be spoken
EngineStart ==
    /\ engQ # <<>>
    /\ ~headPlaying
    /\ headPlaying' = TRUE
    /\ events' = Append(events, [type |-> "start", u |-> Head(engQ),
                                 err |-> "none"])
    /\ startedLog' = Append(startedLog, Head(engQ))
    /\ last' = Step("engine.start", Head(engQ).id, "none", FALSE, <<>>,
                    Len(utteranceQueue))
    /\ UNCHANGED <<hostVars, chatVars, listenVars, isSpeaking, utteranceQueue,
                   isCanceling, engQ, nextId, cancelCount>>

\* the utterance being spoken completes
EngineEnd ==
    /\ engQ # <<>>
    /\ headPlaying
    /\ engQ' = Tail(engQ)
    /\ headPlaying' = FALSE
    /\ events' = Append(events, [type |-> "end", u |-> Head(engQ),
                                 err |-> "none"])
    /\ last' = Step("engine.end", Head(engQ).id, "none", FALSE, <<>>,
                    Len(utteranceQueue))
    /\ UNCHANGED <<hostVars, chatVars, listenVars, isSpeaking, utteranceQueue,
                   isCanceling, nextId, cancelCount, startedLog>>

\* synthesis of the head fails, before or after it began
EngineFail ==
    /\ engQ # <<>>
    /\ engQ' = Tail(engQ)
    /\ headPlaying' = FALSE
    /\ events' = Append(events, [type |-> "error", u |-> Head(engQ),
                                 err |-> "synthesis-failed"])
    /\ last' = Step("engine.fail", Head(engQ).id, "synthesis-failed", FALSE,
                    <<>>, Len(utteranceQueue))
    /\ UNCHANGED <<hostVars, chatVars, listenVars, isSpeaking, utteranceQueue,
                   isCanceling, nextId, cancelCount, startedLog>>

\* ---- recognition control --------------------------------------------------
\* line 45: the early return of startListening
StartRejects_IgnoreSpeaking == isListening \/ ~isBrowserSupported

StartRejects_IgnoreListening == isSpeaking \/ ~isBrowserSupported

StartRejects == isListening \/ isSpeaking \/ ~isBrowserSupported

\* lines 48-51: new SpeechRecognitionApi(), non-continuous, final results only
NewSession(cb) ==
    [cb |-> cb, started |-> FALSE, to |-> <<>>, errored |-> FALSE,
     ended |-> FALSE, stopReq |-> FALSE]

\* lines 44-68
StartListening_NoCallback(cb) ==
    /\ StartRejects \/ Len(sessions) < MaxSessions
    /\ last' = Step("startListening", 0, "none", FALSE, <<>>, Len(sessions))
    /\ IF StartRejects
       THEN UNCHANGED <<hostVars, chatVars, speechVars, listenVars>>
       ELSE /\ onResultCallbackRef' = onResultCallbackRef
            /\ sessions' = Append(sessions, NewSession(cb))
            /\ recognitionRef' = Len(sessions) + 1
            /\ UNCHANGED <<hostVars, chatVars, speechVars, isListening>>

StartListening(cb) ==
    /\ StartRejects \/ Len(sessions) < MaxSessions
    /\ last' = Step("startListening", 0, "none", FALSE, <<>>, Len(sessions))
    /\ IF StartRejects
       THEN UNCHANGED <<hostVars, chatVars, speechVars, listenVars>>
       ELSE /\ onResultCallbackRef' = cb
            /\ sessions' = Append(sessions, NewSession(cb))
            /\ recognitionRef' = Len(sessions) + 1
            /\ UNCHANGED <<hostVars, chatVars, speechVars, isListening>>

\* lines 38-42
StopListening ==
    /\ last' = Step("stopListening", recognitionRef, "none", FALSE, <<>>,
                    Len(sessions))
    /\ IF recognitionRef # 0 /\ ~sessions[recognitionRef].ended
       THEN sessions' = [sessions EXCEPT ![recognitionRef].stopReq = TRUE]
       ELSE sessions' = sessions
    /\ UNCHANGED <<hostVars, chatVars, speechVars, isListening, recognitionRef,
                   onResultCallbackRef>>

\* line 53: recognition.onstart
RecOnStart(i) ==
    /\ i \in 1..Len(sessions)
    /\ LET s == sessions[i]
       IN  ~s.started /\ ~s.errored /\ ~s.ended /\ ~s.stopReq
    /\ sessions' = [sessions EXCEPT ![i].started = TRUE]
    /\ isListening' = TRUE
    /\ last' = Step("rec.onstart", i, "none", FALSE, <<>>, Len(sessions))
    /\ UNCHANGED <<hostVars, chatVars, speechVars, recognitionRef, onResultCallbackRef>>

\* lines 61-64: recognition.onresult; the session is non-continuous and
\* reports final results only (lines 49-50), so it has at most one result
RecOnResult(i) ==
    /\ i \in 1..Len(sessions)
    /\ LET s == sessions[i]
       IN  s.started /\ ~s.errored /\ ~s.ended /\ s.to = <<>>
    /\ sessions' = [sessions EXCEPT ![i].to = <<onResultCallbackRef>>]
    /\ last' = Step("rec.onresult", i, "none", FALSE, <<>>, Len(sessions))
    /\ UNCHANGED <<hostVars, chatVars, speechVars, isListening, recognitionRef,
                   onResultCallbackRef>>

\* lines 56-59: recognition.onerror
RecOnError_KeepFlag(i) ==
    /\ i \in 1..Len(sessions)
    /\ LET s == sessions[i]
       IN  ~s.errored /\ ~s.ended
    /\ sessions' = [sessions EXCEPT ![i].errored = TRUE]
    /\ isListening' = isListening
    /\ last' = Step("rec.onerror", i, "recognition", TRUE, <<>>,
                    Len(sessions))
    /\ UNCHANGED <<hostVars, chatVars, speechVars, recognitionRef, onResultCallbackRef>>

RecOnError(i) ==
    /\ i \in 1..Len(sessions)
    /\ LET s == sessions[i]
       IN  ~s.errored /\ ~s.ended
    /\ sessions' = [sessions EXCEPT ![i].errored = TRUE]
    /\ isListening' = FALSE
    /\ last' = Step("rec.onerror", i, "recognition", TRUE, <<>>,
                    Len(sessions))
    /\ UNCHANGED <<hostVars, chatVars, speechVars, recognitionRef, onResultCallbackRef>>

\* line 54: recognition.onend
RecOnEnd(i) ==
    /\ i \in 1..Len(sessions)
    /\ ~sessions[i].ended
    /\ sessions' = [sessions EXCEPT ![i].ended = TRUE]
    /\ isListening' = FALSE
    /\ last' = Step("rec.onend", i, "none", FALSE, <<>>, Len(sessions))
    /\ UNCHANGED <<hostVars, chatVars, speechVars, recognitionRef, onResultCallbackRef>>

\* ---- streaming chat request ----------------------------------------------
\* lines 21-36: the effect run once after the first render
InitEffect_ReadyAnyway(key) ==
    /\ apiKey = "unread"
    /\ last' = Step("effect", 0, IF key THEN "none" ELSE "no-api-key", ~key,
                    <<>>, 0)
    /\ apiKey' = IF key THEN "set" ELSE "absent"
    /\ chatRef' = key
    /\ isApiReady' = TRUE
    /\ UNCHANGED <<hostVars, speechVars, listenVars, sent>>

InitEffect(key) ==
    /\ apiKey = "unread"
    /\ last' = Step("effect", 0, IF key THEN "none" ELSE "no-api-key", ~key,
                    <<>>, 0)
    /\ IF ~key
       THEN /\ apiKey' = "absent"
            /\ UNCHANGED <<chatRef, isApiReady>>
       ELSE /\ apiKey' = "set"
            /\ chatRef' = TRUE
            /\ isApiReady' = TRUE
    /\ UNCHANGED <<hostVars, speechVars, listenVars, sent>>

\* lines 71-77; ok: the remote service opened the stream, else the
\* transport fault is thrown to the caller
GetJarvisResponseStream(msg, ok) ==
    /\ ~chatRef \/ Len(sent) < MaxSend
    /\ IF ~chatRef
       THEN /\ last' = Step("getStream", 0, "not-initialized", FALSE,
                            <<msg>>, Len(sent))
            /\ UNCHANGED <<hostVars, chatVars, speechVars, listenVars>>
       ELSE /\ last' = Step("getStream", Len(sent) + 1,
                            IF ok THEN "none" ELSE "transport", FALSE,
                            <<msg>>, Len(sent))
            /\ sent' = Append(sent, [msg |-> msg, got |-> 0, done |-> ~ok])
            /\ UNCHANGED <<hostVars, speechVars, listenVars, apiKey, chatRef,
                           isApiReady>>

\* line 76: the caller pulls the returned generator; the remote service
\* yields one more fragment
StreamFragment(i) ==
    /\ i \in 1..Len(sent)
    /\ ~sent[i].done
    /\ sent[i].got < MaxFragments
    /\ sent' = [sent EXCEPT ![i].got = @ + 1]
    /\ last' = Step("fragment", i, "none", FALSE, <<>>, Len(sent))
    /\ UNCHANGED <<hostVars, speechVars, listenVars, apiKey, chatRef,
                   isApiReady>>

\* line 76: the returned generator is exhausted
StreamDone(i) ==
    /\ i \in 1..Len(sent)
    /\ ~sent[i].done
    /\ sent' = [sent EXCEPT ![i].done = TRUE]
    /\ last' = Step("stream.done", i, "none", FALSE, <<>>, Len(sent))
    /\ UNCHANGED <<hostVars, speechVars, listenVars, apiKey, chatRef,
                   isApiReady>>

\* ---- specifications ------------------------------------------------------
\* the speech output queue and the synthesis engine
NextSpeech ==
    \/ \E text \in Texts : Speak(text)
    \/ CancelSpeech
    \/ OnStart
    \/ OnEnd
    \/ OnError
    \/ EngineStart
    \/ EngineEnd
    \/ EngineFail

SpecSpeech == Init /\ [][NextSpeech]_vars

\* the speech output queue fed plain texts only, LiveSpeak utterances and
\* LiveCancel cancels in all
NextDrain ==
    \/ nextId < LiveSpeak /\ Speak(<<"a">>)
    \/ cancelCount < LiveCancel /\ CancelSpeech
    \/ OnStart
    \/ OnEnd
    \/ OnError
    \/ EngineStart
    \/ EngineEnd
    \/ EngineFail

\* the same, with an engine that goes on with the utterance it holds and an
\* event loop that delivers every event posted
SpecSpeechFair ==
    /\ Init
    /\ [][NextDrain]_vars
    /\ WF_vars(EngineStart)
    /\ WF_vars(EngineEnd)
    /\ WF_vars(OnStart)
    /\ WF_vars(OnEnd)
    /\ WF_vars(OnError)

\* recognition control and the recognition engine
NextListen ==
    \/ \E cb \in Callbacks : StartListening(cb)
    \/ StopListening
    \/ \E i \in 1..MaxSessions : RecOnStart(i)
    \/ \E i \in 1..MaxSessions : RecOnResult(i)
    \/ \E i \in 1..MaxSessions : RecOnError(i)
    \/ \E i \in 1..MaxSessions : RecOnEnd(i)

SpecListen == Init /\ [][NextListen]_vars

\* the chat client and the remote service
NextChat ==
    \/ \E key \in BOOLEAN : InitEffect(key)
    \/ \E msg \in Messages, ok \in BOOLEAN : GetJarvisResponseStream(msg, ok)
    \/ \E i \in 1..MaxSend : StreamFragment(i)
    \/ \E i \in 1..MaxSend : StreamDone(i)

SpecChat == Init /\ [][NextChat]_vars

\* speak, cancelSpeech and startListening calls that took effect so far
Calls == nextId + cancelCount + Len(sessions)

\* the voice side of the hook: both halves interleaved, JointOps effective
\* calls in all
Next ==
    \/ Calls < JointOps /\ \E text \in Texts : Speak(text)
    \/ Calls < JointOps /\ CancelSpeech
    \/ OnStart
    \/ OnEnd
    \/ OnError
    \/ EngineStart
    \/ EngineEnd
    \/ EngineFail
    \/ \E cb \in Callbacks :
          (StartRejects \/ Calls < JointOps) /\ StartListening(cb)
    \/ StopListening
    \/ \E i \in 1..MaxSessions : RecOnStart(i)
    \/ \E i \in 1..MaxSessions : RecOnResult(i)
    \/ \E i \in 1..MaxSessions : RecOnError(i)
    \/ \E i \in 1..MaxSessions : RecOnEnd(i)

Spec == Init /\ [][Next]_vars

\* ---- properties -----------------------------------------------------------
\* the utterances the engine has begun and not yet finished or dropped
Playing == {k \in 1..Len(startedLog) :
               \E j \in 1..Len(engQ) : engQ[j] = startedLog[k]}

\* C1: the engine begins the utterances in the order of the speak calls that
\* made them (ids are given in call order), and at most one of them is being
\* spoken at any time.
C1_PlayInCallOrder ==
    /\ \A i, j \in 1..Len(startedLog) :
          i < j => startedLog[i].id < startedLog[j].id
    /\ Cardinality(Playing) <= 1

\* three speak calls, no cancel, the later two waited in the queue and all
\* three have begun
C1_Witness ==
    /\ cancelCount = 0
    /\ Len(startedLog) >= 3
    /\ last.op = "engine.start"
    /\ eagerSpeaking

\* C2 (as stated): with no cancel, isSpeaking is true exactly when the queue
\* is non-empty or an utterance is being spoken by the engine.
C2_Original ==
    cancelCount = 0 =>
        (isSpeaking <=> (utteranceQueue # <<>> \/ headPlaying))

\* C2 (amended): whenever the engine holds no utterance and none of its
\* events is undelivered, isSpeaking is false and the queue is empty; so
\* isSpeaking is true only while the engine is busy or an event is pending.
C2_IdleMeansSilent ==
    (engQ = <<>> /\ events = <<>>) =>
        (~isSpeaking /\ utteranceQueue = <<>>)

\* the last utterance ended, its end event was delivered, the flag went down
C2_Witness ==
    /\ last.op = "onend"
    /\ engQ = <<>>
    /\ events = <<>>
    /\ cancelCount = 0
    /\ Len(startedLog) >= 2
    /\ ~isSpeaking

\* C3: a supported cancelSpeech returns with the queue empty and isSpeaking
\* false, whatever the queue held before.
C3_CancelClears ==
    (last.op = "cancel" /\ isBrowserSupported) =>
        (utteranceQueue = <<>> /\ ~isSpeaking)

\* a cancel that found two utterances waiting behind the one in the engine
C3_Witness ==
    /\ last.op = "cancel"
    /\ isBrowserSupported
    /\ last.pre >= 2
    /\ events # <<>>

\* C4: an utterance the engine begins was enqueued after every cancel made
\* so far: no utterance enqueued before a cancel begins after it.
C4_NoPlayAfterCancel ==
    [][\A k \in 1..Len(startedLog') :
          k > Len(startedLog) => startedLog'[k].ep = cancelCount]_vars

\* utterance 1 was being spoken and utterance 2 waited when cancel ran; the
\* error event of utterance 1 has been delivered and utterance 2 never began
C4_Witness ==
    /\ last.op = "onerror"
    /\ last.err = "interrupted"
    /\ cancelCount >= 1
    /\ nextId = 2
    /\ Len(startedLog) = 1
    /\ engQ = <<>>
    /\ events = <<>>
    /\ utteranceQueue = <<>>

AllWhite(text) == \A k \in 1..Len(text) : text[k] = " "

\* C5: a speak call whose text is empty or all whitespace, or made where the
\* capability is missing, leaves the queue, the cancellation flag,
\* isSpeaking and the engine as they were.
C5_BlankSpeakNoOp ==
    [][(last'.op = "speak" /\ (AllWhite(last'.text) \/ ~isBrowserSupported))
          => UNCHANGED <<hostVars, chatVars, speechVars, listenVars>>]_vars

\* speak("  ") on a supported host while an utterance waits in the queue
C5_Witness ==
    /\ last.op = "speak"
    /\ last.text = <<" ", " ">>
    /\ isBrowserSupported
    /\ utteranceQueue # <<>>
    /\ engQ # <<>>

\* C6: the error event of an utterance interrupted by cancelSpeech is not
\* logged, also when speak ran between the cancel and the event; an error
\* event with no cancel before it is logged.
C6_Original ==
    last.op = "onerror" =>
        /\ (last.err = "interrupted" => ~last.logged)
        /\ (cancelCount = 0 => last.logged)

\* C7: startListening called while isSpeaking is true creates no session,
\* stores no callback and leaves isListening as it was.
C7_StartWhileSpeakingNoOp ==
    [][(last'.op = "startListening" /\ isSpeaking)
          => UNCHANGED listenVars]_vars

\* startListening while the first utterance is being spoken and nobody
\* listens
C7_Witness ==
    /\ last.op = "startListening"
    /\ isSpeaking
    /\ ~isListening
    /\ isBrowserSupported
    /\ sessions = <<>>
    /\ headPlaying

InProgress == {i \in 1..Len(sessions) : ~sessions[i].ended}

\* C8: at most one recognition session is in progress at a time.
C8_Original == Cardinality(InProgress) <= 1

Terminal(s) == s.ended \/ s.errored

\* C9 (as stated): a session that reached its terminal event has delivered
\* exactly one transcript, to the callback of its own startListening call.
C9_Original ==
    \A i \in 1..Len(sessions) :
        Terminal(sessions[i]) => sessions[i].to = <<sessions[i].cb>>

\* C9 (amended): a session delivers at most one transcript, none after its
\* terminal event, and the transcript goes to the callback of the latest
\* accepted startListening call.
C9_AtMostOneToLatest ==
    [][\A i \in 1..Len(sessions) :
          sessions'[i].to # sessions[i].to =>
              /\ sessions[i].to = <<>>
              /\ ~Terminal(sessions[i])
              /\ sessions'[i].to = <<sessions[Len(sessions)].cb>>]_vars

\* a session that delivered its transcript to its own callback and ended
C9_Witness ==
    \E i \in 1..Len(sessions) :
        /\ sessions[i].ended
        /\ sessions[i].to = <<sessions[i].cb>>

\* C10: the end or error event of a session sets isListening false and
\* creates no session; stopListening leaves isListening as it was; sessions
\* are created by startListening only.
C10_TerminalClearsListening ==
    [][/\ last'.op \in {"rec.onend", "rec.onerror"} =>
              (~isListening' /\ Len(sessions') = Len(sessions))
       /\ last'.op = "stopListening" =>
              (isListening' = isListening /\ Len(sessions') = Len(sessions))
       /\ Len(sessions') # Len(sessions) => last'.op = "startListening"]_vars

\* the error event of a session that was listening
C10_Witness ==
    /\ last.op = "rec.onerror"
    /\ sessions[last.id].started
    /\ ~sessions[last.id].ended
    /\ ~isListening

\* C11: getJarvisResponseStream called while no chat session exists fails
\* with the 'not initialized' error, opens no stream and sends nothing;
\* isApiReady is true only where the chat session exists, and once the API
\* key was found absent isApiReady is false and no session exists.
C11_NoSessionNoSend ==
    [][/\ (last'.op = "getStream" /\ ~chatRef) =>
              (last'.err = "not-initialized" /\ UNCHANGED chatVars)
       /\ isApiReady' => chatRef'
       /\ apiKey' = "absent" => (~isApiReady' /\ ~chatRef')]_vars

\* the key was absent and a message was then refused
C11_Witness ==
    /\ last.op = "getStream"
    /\ last.err = "not-initialized"
    /\ apiKey = "absent"
    /\ ~isApiReady
    /\ sent = <<>>

\* the engine holds an utterance that has begun, or one that has not on a
\* host that reports it as speaking already
EngineBusy == engQ # <<>> /\ (headPlaying \/ eagerSpeaking)

Completion == {"onend", "onerror"}

\* C12 (as stated): every end or error event with a non-empty queue
\* dequeues the head and hands it to the engine in that step; with an empty
\* queue it sets isSpeaking false.
C12_Original ==
    [][last'.op \in Completion =>
          IF utteranceQueue # <<>>
          THEN /\ utteranceQueue' = Tail(utteranceQueue)
               /\ engQ' = Append(engQ, Head(utteranceQueue))
          ELSE ~isSpeaking']_vars

\* C12 (amended): every end or error event, logged or suppressed, with a
\* non-empty queue dequeues the head and hands it to the engine in that step
\* unless the engine reports it is speaking, in which case queue, engine and
\* isSpeaking are left alone; with an empty queue it sets isSpeaking false.
C12_CompletionDrains ==
    [][last'.op \in Completion =>
          IF utteranceQueue # <<>>
          THEN /\ isSpeaking' = isSpeaking
               /\ IF EngineBusy
                  THEN UNCHANGED <<utteranceQueue, engQ>>
                  ELSE /\ utteranceQueue' = Tail(utteranceQueue)
                       /\ engQ' = Append(engQ, Head(utteranceQueue))
          ELSE /\ ~isSpeaking'
               /\ UNCHANGED <<utteranceQueue, engQ>>]_vars

\* a logged synthesis error whose handler handed the waiting utterance over
C12_Witness ==
    /\ last.op = "onerror"
    /\ last.logged
    /\ last.err = "synthesis-failed"
    /\ last.pre >= 1
    /\ Len(utteranceQueue) = last.pre - 1
    /\ engQ # <<>>

\* C13 (as stated): the engine never holds more than one utterance.
C13_Original == Len(engQ) <= 1

\* C13 (amended): an utterance is handed to the engine only in a step that
\* starts with the engine not reporting speaking, and it is the head of the
\* queue; the engine never has more than one utterance begun, and on a host
\* that reports a handed-over utterance as speaking it never holds more than
\* one.
C13_DequeueOnlyWhenSilent ==
    [][/\ Len(engQ') > Len(engQ) =>
              /\ ~EngineBusy
              /\ LET u == engQ'[Len(engQ')]
                 IN  /\ engQ' = Append(engQ, u)
                     /\ utteranceQueue # <<>> => u = Head(utteranceQueue)
                     /\ utteranceQueue = <<>> => u.id = nextId'
                     /\ \A k \in 1..Len(utteranceQueue') :
                           utteranceQueue'[k] # u
       /\ Cardinality(Playing') <= 1
       /\ eagerSpeaking => Len(engQ') <= 1]_vars

\* a speak call that had to leave its utterance in the queue behind another
\* because the engine was speaking
C13_Witness ==
    /\ last.op = "speak"
    /\ last.id >= 3
    /\ Len(utteranceQueue) >= 2
    /\ headPlaying

\* C14: the cancellation flag rises only in cancelSpeech and falls only by a
\* suppressed error or a dequeue, both of which clear it; an error is
\* suppressed only with the flag up and only if it is 'interrupted', so each
\* cancel suppresses at most one error; the error of an utterance enqueued
\* after every cancel so far, and any error that is not 'interrupted', is
\* logged.
C14_CancelDoesNotLeak ==
    [][/\ (~isCanceling /\ isCanceling') => last'.op = "cancel"
       /\ (isCanceling /\ ~isCanceling') =>
              \/ (last'.op = "onerror" /\ ~last'.logged)
              \/ Len(engQ') > Len(engQ)
       /\ Len(engQ') > Len(engQ) => ~isCanceling'
       /\ last'.op = "onerror" =>
              /\ ~last'.logged =>
                     /\ isCanceling
                     /\ last'.err = "interrupted"
                     /\ utteranceQueue = <<>> => ~isCanceling'
              /\ last'.err # "interrupted" => last'.logged
              /\ Head(events).u.ep = cancelCount => last'.logged]_vars

\* after a cancel, an utterance enqueued later began, failed, and its error
\* was logged
C14_Witness ==
    /\ last.op = "onerror"
    /\ last.err = "synthesis-failed"
    /\ last.logged
    /\ cancelCount >= 1
    /\ startedLog # <<>>
    /\ startedLog[Len(startedLog)].id = last.id
    /\ startedLog[Len(startedLog)].ep >= 1

Quiet ==
    /\ engQ = <<>>
    /\ events = <<>>
    /\ utteranceQueue = <<>>
    /\ ~isSpeaking

\* C15: isSpeaking is true with an empty engine only while a terminal event
\* is still to be delivered; the delivery of the last event with the engine
\* empty leaves isSpeaking false and the queue empty; and from then on, until
\* speak is called, isSpeaking stays false and the engine begins nothing.
C15_RaceSettles ==
    [][/\ (isSpeaking' /\ engQ' = <<>>) =>
              /\ events' # <<>>
              /\ events'[Len(events')].type \in {"end", "error"}
       /\ (last'.op \in Completion /\ events' = <<>> /\ engQ' = <<>>) =>
              Quiet'
       /\ (Quiet /\ last'.op # "speak") =>
              (Quiet' /\ startedLog' = startedLog)]_vars

\* the start event of the cancelled utterance was delivered after the cancel:
\* isSpeaking is true again, its 'interrupted' error is still to come
C15_Witness ==
    /\ last.op = "onstart"
    /\ cancelCount >= 1
    /\ isSpeaking
    /\ engQ = <<>>
    /\ utteranceQueue = <<>>
    /\ Len(events) = 1
    /\ Head(events).err = "interrupted"
    /\ Head(events).u.id = last.id

\* C16 (as stated): isListening and isSpeaking are never true together.
C16_Original == ~(isListening /\ isSpeaking)

\* C16 (amended): a recognition session is created only in a state where
\* neither isListening nor isSpeaking is true; the two flags become true
\* together only by a start event, of an utterance or of a session.
C16_NoSessionWhileBusy ==
    [][/\ Len(sessions') > Len(sessions) => (~isListening /\ ~isSpeaking)
       /\ (~(isListening /\ isSpeaking) /\ isListening' /\ isSpeaking') =>
              last'.op \in {"onstart", "rec.onstart"}]_vars

\* listening began, then speech began: both flags are true
C16_Witness ==
    /\ isListening
    /\ isSpeaking
    /\ last.op = "onstart"
    /\ Len(sessions) = 1
    /\ sessions[1].started
    /\ ~sessions[1].ended

InQueue(n) == \E k \in 1..Len(utteranceQueue) : utteranceQueue[k].id = n

\* C17: an utterance waiting in the queue eventually leaves it, handed to
\* the engine or removed by cancelSpeech; and whenever the queue is empty
\* and the engine holds nothing, isSpeaking is eventually false.
C17_NothingStranded ==
    /\ \A n \in 1..MaxSpeak : InQueue(n) ~> ~InQueue(n)
    /\ (utteranceQueue = <<>> /\ engQ = <<>>) ~> ~isSpeaking

\* an end event whose handler handed over the first of two waiting utterances
C17_Witness ==
    /\ last.op = "onend"
    /\ last.pre >= 2
    /\ Len(utteranceQueue) = last.pre - 1
    /\ engQ # <<>>
    /\ engQ[Len(engQ)].id < utteranceQueue[1].id

====
